---- MODULE Spec2Model ----
(***************************************************************************)
(* Task Notifier (src/Task Notifier/TaskNotifier.py): the notification     *)
(* list, the scheduling predicate _should_fire / _mark_fired, the          *)
(* background poller check_notifications, the UI handlers                  *)
(* create/update/delete_notification and the delivery dispatcher.          *)
(*                                                                         *)
(* Representation of the strings the code compares:                        *)
(*  - a wall-clock instant is [day, tod]: day is a day number counted from *)
(*    the day the model starts, tod is <<hour, minute>>.  The clock only   *)
(*    visits the minutes listed in ClockTimes (the other minutes of a day  *)
(*    are stuttering for every record the forms can enter).  The clock     *)
(*    never goes backwards.                                                *)
(*  - now.strftime("%Y-%m-%d") is the date string [d |-> day, canon |->    *)
(*    TRUE]; a date typed in the form may be a non-canonical spelling of   *)
(*    the same day ("2026-1-5"), canon = FALSE, which strptime accepts.    *)
(*  - a stored time "HH:MM" is <<hour, minute>>; f"{hour:02d}:{mm:02d}" is *)
(*    injective, and strptime("%H:%M") rejects hour > 23.                  *)
(*  - f"{year}-W{weeknum}" is the ISO week index (injective on weeks).     *)
(***************************************************************************)
EXTENDS Integers, Sequences, FiniteSets, TLC

VARIABLES
    clock,          \* datetime.now(): [day, tod]
    ui,             \* Tk main loop: "starting" (before root.mainloop()) or "running"
    notifications,  \* self.notifications: the list, as a sequence of record identities
    store,          \* the dict object behind each identity (NoRec: not created yet)
    nCreated,       \* identities handed out so far
    nOps,           \* create/update/delete calls behind the list (the loaded record counts as one)
    synced,         \* notifications.json holds exactly the in-memory list
    pc,             \* poller position in check_notifications
    snap,           \* list(self.notifications) of the running cycle
    idx,            \* position of the for loop in snap (1-based)
    now,            \* local `now` of _should_fire (first clock read)
    fired_any,      \* local fired_any of the cycle
    image_path,     \* local image_path of the loop body
    temp,           \* the files that exist in <base_dir>/temp
    uiQueue,        \* callbacks posted with root.after(0, ...) and not yet run
    env,            \* delivery mechanisms: which exist, which raise
    lastReq,        \* history: the last delivery request made by the poller
    execBy,         \* history: which contexts have run _deliver_notification
    lastCall,       \* history: outcome of the last _deliver_notification call
    missing,        \* history: a delivery ran when the image file it was given was gone
    lastDue,        \* history: each record's last delivery request: due-check instant, repeat mode
    edited,         \* history: record updated since its last delivery request
    cyc,            \* history: per record, evaluations/requests/marks in the running cycle
    cycle           \* history: the running (or last) cycle: fired, saves, skipped

vars == <<clock, ui, notifications, store, nCreated, nOps, synced,
          pc, snap, idx, now, fired_any, image_path, temp, uiQueue, env, lastReq,
          execBy, lastCall, missing, lastDue, edited, cyc, cycle>>

(* ------------------------------ bounds -------------------------------- *)
MaxDay == 2
MaxRecords == 2
MaxOps == 2
MaxQueue == 1
MaxSecond == 1
HorizonDays == 16
StartWeekday == 5

(* ----------------------------- calendar ------------------------------- *)
DaysPerWeek == 7

\* The minutes of a day the clock visits, in order.
ClockTimes == << <<9, 0>>, <<21, 0>> >>

\* Every instant _should_fire can be asked about (beyond the days the clock reaches).
Instants == [day : 0..HorizonDays, tod : {ClockTimes[k] : k \in 1..Len(ClockTimes)}]

\* datetime.weekday(): Monday is 0
Weekday(d) == (StartWeekday + d) % DaysPerWeek

\* f"{year}-W{weeknum}" of now.isocalendar(): ISO weeks start on Monday
WeekStr(t) == (StartWeekday + t.day) \div DaysPerWeek

\* now.strftime("%Y-%m-%d")
DateStr(t) == [d |-> t.day, canon |-> TRUE]

\* now.strftime("%H:%M")
TimeStr(t) == t.tod

\* now.strftime("%Y-%m-%d %H:%M")
MinuteStr(t) == <<DateStr(t), TimeStr(t)>>

TodIndex(tod) == CHOOSE k \in 1..Len(ClockTimes) : ClockTimes[k] = tod

\* the next minute the clock visits
NextInstant(t) ==
    IF TodIndex(t.tod) < Len(ClockTimes)
    THEN [day |-> t.day, tod |-> ClockTimes[TodIndex(t.tod) + 1]]
    ELSE [day |-> t.day + 1, tod |-> ClockTimes[1]]

(* ------------------------------ records ------------------------------- *)
NoRec == [repeat |-> "none"]
NoDate == [d |-> -1, canon |-> FALSE]   \* "" (and None for last_fired_date)
NoWeek == -1                              \* None for last_fired_week
NoTime == [day |-> -1, tod |-> <<0, 0>>]
NoImage == [b64 |-> ""]                   \* None for image
NoPath == [t |-> NoTime, s |-> 0]         \* None for image_path
Ids == 1..MaxRecords

\* datetime.strptime(s, "%H:%M") succeeds
ValidTime(tm) == tm[1] \in 0..23 /\ tm[2] \in 0..59

\* datetime.strptime(f"{date_str} {time_str}", "%Y-%m-%d %H:%M"), as an instant
ParseDateTime(date, tm) == [day |-> date.d, tod |-> tm]

(* --------------------------- _time_matches_now ------------------------ *)
time_matches_now(time_str, t) == TimeStr(t) = time_str

(* faulty variants of _should_fire *)
\* Once fires at or after its minute (catch-up)
should_fire_catch_up(notif, t1, t2) ==
    IF notif.repeat = "Once" THEN
        IF notif.delivered THEN FALSE
        ELSE IF notif.date = NoDate THEN FALSE
        ELSE IF ~ValidTime(notif.time) THEN FALSE
        ELSE \/ t1.day > notif.date.d
             \/ t1.day = notif.date.d /\ t1.tod[1] >= notif.time[1]
    ELSE IF notif.repeat = "Daily" THEN
        IF ~time_matches_now(notif.time, t2) THEN FALSE
        ELSE notif.last_fired_date # DateStr(t1)
    ELSE IF notif.repeat = "Weekly" THEN
        IF Weekday(t1.day) # notif.created_weekday THEN FALSE
        ELSE IF ~time_matches_now(notif.time, t2) THEN FALSE
        ELSE notif.last_fired_week # WeekStr(t1)
    ELSE FALSE

\* Daily ignores last_fired_date
should_fire_daily_unguarded(notif, t1, t2) ==
    IF notif.repeat = "Once" THEN
        IF notif.delivered THEN FALSE
        ELSE IF notif.date = NoDate THEN FALSE
        ELSE IF ~ValidTime(notif.time) THEN FALSE
        ELSE MinuteStr(t1) = MinuteStr(ParseDateTime(notif.date, notif.time))
    ELSE IF notif.repeat = "Daily" THEN time_matches_now(notif.time, t2)
    ELSE IF notif.repeat = "Weekly" THEN
        IF Weekday(t1.day) # notif.created_weekday THEN FALSE
        ELSE IF ~time_matches_now(notif.time, t2) THEN FALSE
        ELSE notif.last_fired_week # WeekStr(t1)
    ELSE FALSE

\* Weekly ignores created_weekday
should_fire_weekly_any_day(notif, t1, t2) ==
    IF notif.repeat = "Once" THEN
        IF notif.delivered THEN FALSE
        ELSE IF notif.date = NoDate THEN FALSE
        ELSE IF ~ValidTime(notif.time) THEN FALSE
        ELSE MinuteStr(t1) = MinuteStr(ParseDateTime(notif.date, notif.time))
    ELSE IF notif.repeat = "Daily" THEN
        IF ~time_matches_now(notif.time, t2) THEN FALSE
        ELSE notif.last_fired_date # DateStr(t1)
    ELSE IF notif.repeat = "Weekly" THEN
        IF ~time_matches_now(notif.time, t2) THEN FALSE
        ELSE notif.last_fired_week # WeekStr(t1)
    ELSE FALSE

(* ----------------------------- _should_fire --------------------------- *)
\* t1 is `now` (line 678); t2 is the clock read inside _time_matches_now.
should_fire(notif, t1, t2) ==
    IF notif.repeat = "Once" THEN
        IF notif.delivered THEN FALSE
        ELSE IF notif.date = NoDate THEN FALSE
        ELSE IF ~ValidTime(notif.time) THEN FALSE
        ELSE MinuteStr(t1) = MinuteStr(ParseDateTime(notif.date, notif.time))
    ELSE IF notif.repeat = "Daily" THEN
        IF ~time_matches_now(notif.time, t2) THEN FALSE
        ELSE notif.last_fired_date # DateStr(t1)
    ELSE IF notif.repeat = "Weekly" THEN
        IF Weekday(t1.day) # notif.created_weekday THEN FALSE
        ELSE IF ~time_matches_now(notif.time, t2) THEN FALSE
        ELSE notif.last_fired_week # WeekStr(t1)
    ELSE FALSE

(* faulty variants of _mark_fired *)
\* Daily is not recorded
mark_fired_daily_lost(notif, t) ==
    IF notif.repeat = "Once" THEN [notif EXCEPT !.delivered = TRUE]
    ELSE IF notif.repeat = "Weekly" THEN [notif EXCEPT !.last_fired_week = WeekStr(t)]
    ELSE notif

\* Once is not recorded
mark_fired_once_lost(notif, t) ==
    IF notif.repeat = "Daily" THEN [notif EXCEPT !.last_fired_date = DateStr(t)]
    ELSE IF notif.repeat = "Weekly" THEN [notif EXCEPT !.last_fired_week = WeekStr(t)]
    ELSE notif

\* Daily and Weekly also set delivered
mark_fired_sets_delivered(notif, t) ==
    IF notif.repeat = "Once" THEN [notif EXCEPT !.delivered = TRUE]
    ELSE IF notif.repeat = "Daily"
        THEN [notif EXCEPT !.last_fired_date = DateStr(t), !.delivered = TRUE]
    ELSE IF notif.repeat = "Weekly"
        THEN [notif EXCEPT !.last_fired_week = WeekStr(t), !.delivered = TRUE]
    ELSE notif

(* ------------------------------ _mark_fired --------------------------- *)
mark_fired(notif, t) ==
    IF notif.repeat = "Once" THEN [notif EXCEPT !.delivered = TRUE]
    ELSE IF notif.repeat = "Daily" THEN [notif EXCEPT !.last_fired_date = DateStr(t)]
    ELSE IF notif.repeat = "Weekly" THEN [notif EXCEPT !.last_fired_week = WeekStr(t)]
    ELSE notif

(* --------------------------- _validate_inputs ------------------------- *)
NoData == [repeat |-> "invalid"]

\* the hour the AM/PM selector turns the typed hour into (lines 479-484)
Hour24(hour, amp) ==
    IF amp = "AM" THEN (IF hour = 12 THEN 0 ELSE hour)
    ELSE (IF hour = 12 THEN 12 ELSE hour + 12)

\* form: [title, message, date, time, ampm, repeat, priority, image]; time is the
\* typed <<hh, mm>>, date the typed date string (NoDate when left blank), image the
\* bytes of the file chosen with the image button ("" when none was chosen).
validate_inputs(form) ==
    IF form.title = "" \/ form.message = "" \/ form.repeat = "" \/ form.priority = ""
    THEN NoData
    ELSE IF ~ValidTime(form.time) THEN NoData
    ELSE IF form.repeat = "Once" /\ form.date = NoDate THEN NoData
    ELSE [title |-> form.title, message |-> form.message, date |-> form.date,
          time |-> <<Hour24(form.time[1], form.ampm), form.time[2]>>,
          repeat |-> form.repeat, priority |-> form.priority]

\* faulty variant of the anchor: always the weekday of today
created_weekday_today(data, t) == Weekday(t.day)

\* datetime.strptime(data["date"], "%Y-%m-%d").weekday() if data["date"]
\* else datetime.now().weekday()
created_weekday(data, t) ==
    IF data.date # NoDate THEN Weekday(data.date.d) ELSE Weekday(t.day)

\* base64.b64encode(f.read()).decode("utf-8")
b64encode(bytes) == [b64 |-> bytes]

\* lines 518-524: image_b64 of create_notification
created_image(form) == IF form.image # "" THEN b64encode(form.image) ELSE NoImage

\* lines 553-558: image_b64 of update_notification
updated_image(old, form) == IF form.image # "" THEN b64encode(form.image) ELSE old.image

\* the dict create_notification builds (lines 526-534)
new_notification(data, image_b64, t) ==
    [title |-> data.title, message |-> data.message, date |-> data.date,
     time |-> data.time, repeat |-> data.repeat, priority |-> data.priority,
     image |-> image_b64,
     delivered |-> FALSE, last_fired_date |-> NoDate, last_fired_week |-> NoWeek,
     created_weekday |-> created_weekday(data, t)]

\* faulty variant of the update: the fire memory survives the edit
updated_notification_keeps_memory(old, data, image_b64, t) ==
    [title |-> data.title, message |-> data.message, date |-> data.date,
     time |-> data.time, repeat |-> data.repeat, priority |-> data.priority,
     image |-> image_b64,
     delivered |-> old.delivered,
     last_fired_date |-> old.last_fired_date, last_fired_week |-> old.last_fired_week,
     created_weekday |-> created_weekday(data, t)]

\* the dict after self.notifications[index].update({...}) (lines 560-568)
updated_notification(old, data, image_b64, t) ==
    [title |-> data.title, message |-> data.message, date |-> data.date,
     time |-> data.time, repeat |-> data.repeat, priority |-> data.priority,
     image |-> image_b64,
     delivered |-> IF data.repeat = "Once" THEN FALSE ELSE old.delivered,
     last_fired_date |-> NoDate, last_fired_week |-> NoWeek,
     created_weekday |-> created_weekday(data, t)]

(* faulty variant of _deliver_notification: no return after a toast that succeeded *)
deliver_notification_no_return(e) ==
    LET a1 == IF e.toaster THEN <<"win10toast">> ELSE <<>>
        a2 == IF e.winotify THEN Append(a1, "winotify") ELSE a1
        ok2 == e.winotify /\ "winotify" \notin e.fails
        a3 == IF e.plyer THEN Append(a2, "plyer") ELSE a2
        ok3 == e.plyer /\ "plyer" \notin e.fails
    IN  IF ok2 THEN [sound |-> TRUE, trace |-> a2, raised |-> FALSE]
        ELSE IF ok3 THEN [sound |-> TRUE, trace |-> a3, raised |-> FALSE]
        ELSE [sound |-> TRUE, trace |-> Append(a3, "dialog"), raised |-> FALSE]

(* ------------------------- _deliver_notification ---------------------- *)
Mechs == <<"win10toast", "winotify", "plyer", "dialog">>
MechSet == {Mechs[k] : k \in 1..Len(Mechs)}

\* e.toaster: self.toaster is not None; e.winotify: os.name == 'nt' and
\* WINDOWS_NOTIFICATIONS_AVAILABLE and Notification is not None; e.plyer:
\* PLYER_AVAILABLE and plyer_notification is not None; e.fails: the mechanisms
\* whose call raises.  The result is the mechanisms invoked, in order, and whether
\* an exception left the call.
deliver_notification(e) ==
    LET a1 == IF e.toaster THEN <<"win10toast">> ELSE <<>>
        ok1 == e.toaster /\ "win10toast" \notin e.fails
        a2 == IF e.winotify THEN Append(a1, "winotify") ELSE a1
        ok2 == e.winotify /\ "winotify" \notin e.fails
        a3 == IF e.plyer THEN Append(a2, "plyer") ELSE a2
        ok3 == e.plyer /\ "plyer" \notin e.fails
    IN  IF ok1 THEN [sound |-> TRUE, trace |-> a1, raised |-> FALSE]
        ELSE IF ok2 THEN [sound |-> TRUE, trace |-> a2, raised |-> FALSE]
        ELSE IF ok3 THEN [sound |-> TRUE, trace |-> a3, raised |-> FALSE]
        ELSE [sound |-> TRUE, trace |-> Append(a3, "dialog"), raised |-> FALSE]

NoCall == [sound |-> FALSE, trace |-> <<>>, raised |-> FALSE]

\* The environments the imports and __init__ can produce: a toaster exists only
\* when the Windows libraries were imported (lines 17-24, 216-222).
Envs == {e \in [toaster : BOOLEAN, winotify : BOOLEAN, plyer : BOOLEAN,
                fails : SUBSET MechSet] : e.toaster => e.winotify}

\* the environment of the scheduling runs: every mechanism present, none failing
PlainEnv == [toaster |-> TRUE, winotify |-> TRUE, plyer |-> TRUE, fails |-> {}]

(* ------------------------------- inputs ------------------------------- *)
\* What the user types: the typed date (blank, day 0 spelled canonically, day 1
\* spelled without zero padding), the typed time and the AM/PM selector.
Day0 == [d |-> 0, canon |-> TRUE]
Day1 == [d |-> 1, canon |-> FALSE]
MkForm(title, date, ampm, repeat) ==
    [title |-> title, message |-> "msg", date |-> date, time |-> <<9, 0>>,
     ampm |-> ampm, repeat |-> repeat, priority |-> "Normal", image |-> ""]
MkForms(titles) ==
    {MkForm(t, Day0, "AM", "Once") : t \in titles} \cup
    {MkForm(t, Day1, "PM", "Once") : t \in titles} \cup
    {MkForm(t, NoDate, "AM", "Once") : t \in titles} \cup
    {MkForm(t, NoDate, "AM", "Daily") : t \in titles} \cup
    {MkForm(t, NoDate, "PM", "Daily") : t \in titles} \cup
    {MkForm(t, NoDate, "AM", "Weekly") : t \in titles} \cup
    {MkForm(t, Day1, "AM", "Weekly") : t \in titles}

\* forms of the runs with edits
Forms == MkForms({"Standup"})
\* forms of the runs without edits
PollForms == Forms \cup {MkForm("Review", NoDate, "AM", "Daily")}

\* notifications.json as an earlier run left it: one Daily reminder, never fired
LoadedRecord ==
    [title |-> "Standup", message |-> "msg", date |-> NoDate, time |-> <<9, 0>>,
     repeat |-> "Daily", priority |-> "Normal", image |-> NoImage, delivered |-> FALSE,
     last_fired_date |-> NoDate, last_fired_week |-> NoWeek,
     created_weekday |-> Weekday(0)]

NoReq == [id |-> 0, title |-> ""]
Seconds == 0..MaxSecond
NoDue == [t |-> NoTime, repeat |-> "none"]
NoCyc == [i \in Ids |-> [ev |-> 0, req |-> 0, mk |-> 0]]
NoCycle == [fired |-> FALSE, saves |-> 0, skipped |-> 0]
Inc(n) == IF n < 2 THEN n + 1 ELSE n

(* -------------------------------- Init -------------------------------- *)
\* The state after NotifierApp.__init__: the list is loaded (line 225), the poller
\* thread is started (line 254), root.mainloop() has not been entered.
InitWith(envs) ==
    /\ clock = [day |-> 0, tod |-> ClockTimes[1]]
    /\ ui = "starting"
    /\ \/ /\ notifications = <<>>
          /\ store = [i \in Ids |-> NoRec]
          /\ nCreated = 0
       \/ /\ notifications = <<1>>
          /\ store = [i \in Ids |-> IF i = 1 THEN LoadedRecord ELSE NoRec]
          /\ nCreated = 1
    /\ nOps = nCreated
    /\ synced = TRUE
    /\ pc = "sleep"
    /\ snap = <<>>
    /\ idx = 1
    /\ now = NoTime
    /\ fired_any = FALSE
    /\ image_path = NoPath
    /\ temp = {}
    /\ missing = FALSE
    /\ uiQueue = <<>>
    /\ env \in envs
    /\ lastReq = NoReq
    /\ execBy = {}
    /\ lastCall = NoCall
    /\ lastDue = [i \in Ids |-> NoDue]
    /\ edited = [i \in Ids |-> FALSE]
    /\ cyc = NoCyc
    /\ cycle = NoCycle

Init == InitWith({PlainEnv})

pollerVars == <<pc, snap, idx, now, fired_any, image_path, temp, cyc, cycle>>
listVars == <<notifications, store, nCreated, nOps, synced>>
deliveryVars == <<uiQueue, lastReq, execBy, lastCall, missing>>

(* ------------------------------ the clock ----------------------------- *)
Tick ==
    /\ NextInstant(clock).day <= MaxDay
    /\ clock' = NextInstant(clock)
    /\ UNCHANGED <<ui, env, lastDue, edited>>
    /\ UNCHANGED listVars
    /\ UNCHANGED pollerVars
    /\ UNCHANGED deliveryVars

(* ------------------------------ UI context ---------------------------- *)
\* root.mainloop() (line 894): from here on the UI context runs its handlers
MainLoop ==
    /\ ui = "starting"
    /\ ui' = "running"
    /\ UNCHANGED <<clock, env, lastDue, edited>>
    /\ UNCHANGED listVars
    /\ UNCHANGED pollerVars
    /\ UNCHANGED deliveryVars

create_notification(form) ==
    /\ ui = "running"
    /\ nCreated < MaxRecords
    /\ nOps < MaxOps
    /\ LET data == validate_inputs(form)
           id == nCreated + 1
       IN  IF data = NoData
           THEN UNCHANGED listVars
           ELSE /\ store' = [store EXCEPT ![id] = new_notification(data, created_image(form), clock)]
                /\ notifications' = Append(notifications, id)
                /\ nCreated' = id
                /\ nOps' = nOps + 1
                /\ synced' = TRUE
    /\ UNCHANGED <<clock, ui, env, lastDue, edited>>
    /\ UNCHANGED pollerVars
    /\ UNCHANGED deliveryVars

update_notification(index, form) ==
    /\ ui = "running"
    /\ nOps < MaxOps
    /\ index \in 1..Len(notifications)
    /\ LET data == validate_inputs(form)
           id == notifications[index]
       IN  IF data = NoData
           THEN UNCHANGED <<listVars, edited>>
           ELSE /\ store' = [store EXCEPT ![id] =
                        updated_notification(store[id], data, updated_image(store[id], form), clock)]
                /\ nOps' = nOps + 1
                /\ synced' = TRUE
                /\ edited' = [edited EXCEPT ![id] = TRUE]
                /\ UNCHANGED <<notifications, nCreated>>
    /\ UNCHANGED <<clock, ui, env, lastDue>>
    /\ UNCHANGED pollerVars
    /\ UNCHANGED deliveryVars

RemoveAt(seq, k) == [j \in 1..(Len(seq) - 1) |-> IF j < k THEN seq[j] ELSE seq[j + 1]]

delete_notification(index) ==
    /\ ui = "running"
    /\ nOps < MaxOps
    /\ index \in 1..Len(notifications)
    /\ notifications' = RemoveAt(notifications, index)
    /\ nOps' = nOps + 1
    /\ synced' = TRUE
    /\ UNCHANGED <<store, nCreated>>
    /\ UNCHANGED <<clock, ui, env, lastDue, edited>>
    /\ UNCHANGED pollerVars
    /\ UNCHANGED deliveryVars

\* a path was handed over and os.path.exists(path) is false
FileGone(path, files) == path # NoPath /\ path \notin files

\* the callback root.after(0, ...) posted, run by the main loop
run_callback ==
    /\ ui = "running"
    /\ uiQueue # <<>>
    /\ uiQueue' = Tail(uiQueue)
    /\ lastCall' = deliver_notification(env)
    /\ execBy' = execBy \cup {"ui"}
    /\ missing' = (missing \/ FileGone(Head(uiQueue).image_path, temp))
    /\ UNCHANGED <<clock, ui, env, lastDue, edited, lastReq>>
    /\ UNCHANGED listVars
    /\ UNCHANGED pollerVars

(* --------------------------- send_notification ------------------------ *)

\* root.after(0, ...) posts the callback when the main loop is dispatching and
\* raises otherwise (the main thread is not in the main loop); the except branch
\* then calls _deliver_notification in the calling thread.
send_notification(req, caller) ==
    IF ui = "running"
    THEN /\ Len(uiQueue) < MaxQueue
         /\ uiQueue' = Append(uiQueue, req)
         /\ UNCHANGED <<lastCall, execBy, missing>>
    ELSE /\ lastCall' = deliver_notification(env)
         /\ execBy' = execBy \cup {caller}
         /\ missing' = (missing \/ FileGone(req.image_path, temp'))
         /\ UNCHANGED uiQueue

(* --------------------------- check_notifications ---------------------- *)
cur == snap[idx]

\* for notif in list(self.notifications): the snapshot, at the top of a cycle
check_snapshot ==
    /\ pc = "sleep"
    /\ snap' = notifications
    /\ idx' = 1
    /\ fired_any' = FALSE
    /\ pc' = "loop"
    /\ cyc' = NoCyc
    /\ cycle' = NoCycle
    /\ UNCHANGED <<clock, ui, env, lastDue, edited, now, image_path, temp>>
    /\ UNCHANGED listVars
    /\ UNCHANGED deliveryVars

\* _should_fire, line 678: now = datetime.now()
check_now ==
    /\ pc = "loop"
    /\ idx <= Len(snap)
    /\ now' = clock
    /\ pc' = "eval"
    /\ UNCHANGED <<clock, ui, env, lastDue, edited>>
    /\ UNCHANGED <<snap, idx, fired_any, image_path, temp, cyc, cycle>>
    /\ UNCHANGED listVars
    /\ UNCHANGED deliveryVars

\* the rest of _should_fire and the `if` of line 729
check_eval ==
    /\ pc = "eval"
    /\ cyc' = [cyc EXCEPT ![cur].ev = Inc(@)]
    /\ IF should_fire(store[cur], now, clock)
       THEN pc' = "send" /\ idx' = idx /\ now' = now
       ELSE pc' = "loop" /\ idx' = idx + 1 /\ now' = NoTime
    /\ UNCHANGED <<clock, ui, env, lastDue, edited>>
    /\ UNCHANGED <<snap, fired_any, image_path, temp, cycle>>
    /\ UNCHANGED listVars
    /\ UNCHANGED deliveryVars

\* lines 730-741: the embedded image is written to temp/img_<seconds>.png; the
\* result is the local image_path: the file's path, or None when the record has no
\* image or the write raised.  Two writes within one second share the name.
materialize(notif, t) ==
    IF notif.image = NoImage THEN {NoPath}
    ELSE {[t |-> t, s |-> k] : k \in Seconds} \cup {NoPath}

\* faulty variant of the loop body: the request is not followed by _mark_fired
check_send_unmarked ==
    /\ pc = "send"
    /\ \E path \in materialize(store[cur], clock) :
        /\ image_path' = path
        /\ temp' = (temp \cup {path}) \ {NoPath}
        /\ send_notification([title |-> store[cur].title, image_path |-> path], "poller")
    /\ lastReq' = [id |-> cur, title |-> store[cur].title]
    /\ lastDue' = [lastDue EXCEPT ![cur] = [t |-> now, repeat |-> store[cur].repeat]]
    /\ edited' = [edited EXCEPT ![cur] = FALSE]
    /\ cyc' = [cyc EXCEPT ![cur].req = Inc(@)]
    /\ now' = NoTime
    /\ pc' = "log"
    /\ UNCHANGED <<clock, ui, env>>
    /\ UNCHANGED <<snap, idx, fired_any, cycle>>
    /\ UNCHANGED listVars

\* lines 743-747: self.send_notification(title=notif.get("title", ""), ...)
check_send ==
    /\ pc = "send"
    /\ \E path \in materialize(store[cur], clock) :
        /\ image_path' = path
        /\ temp' = (temp \cup {path}) \ {NoPath}
        /\ send_notification([title |-> store[cur].title, image_path |-> path], "poller")
    /\ lastReq' = [id |-> cur, title |-> store[cur].title]
    /\ lastDue' = [lastDue EXCEPT ![cur] = [t |-> now, repeat |-> store[cur].repeat]]
    /\ edited' = [edited EXCEPT ![cur] = FALSE]
    /\ cyc' = [cyc EXCEPT ![cur].req = Inc(@)]
    /\ now' = NoTime
    /\ pc' = "mark"
    /\ UNCHANGED <<clock, ui, env>>
    /\ UNCHANGED <<snap, idx, fired_any, cycle>>
    /\ UNCHANGED listVars

InList(id) == \E k \in 1..Len(notifications) : notifications[k] = id

\* line 749: self._mark_fired(notif)
check_mark ==
    /\ pc = "mark"
    /\ store' = [store EXCEPT ![cur] = mark_fired(store[cur], clock)]
    /\ synced' = (synced /\ (store' = store \/ ~InList(cur)))
    /\ cyc' = [cyc EXCEPT ![cur].mk = Inc(@)]
    /\ cycle' = [cycle EXCEPT !.fired = TRUE]
    /\ pc' = "log"
    /\ UNCHANGED <<clock, ui, env, lastDue, edited>>
    /\ UNCHANGED <<snap, idx, now, fired_any, image_path, temp>>
    /\ UNCHANGED <<notifications, nCreated, nOps>>
    /\ UNCHANGED deliveryVars

\* lines 751-759: print(...) returned; fired_any = True; the temp image is
\* unlinked; next record
check_log ==
    /\ pc = "log"
    /\ fired_any' = TRUE
    /\ temp' = temp \ {image_path}
    /\ image_path' = NoPath
    /\ idx' = idx + 1
    /\ pc' = "loop"
    /\ UNCHANGED <<clock, ui, env, lastDue, edited>>
    /\ UNCHANGED <<snap, now, cyc, cycle>>
    /\ UNCHANGED listVars
    /\ UNCHANGED deliveryVars

\* faulty variant of the except branch: the exception ends the poller thread
check_log_raise_fatal ==
    /\ pc = "log"
    /\ cycle' = [cycle EXCEPT !.skipped = Len(snap) - idx]
    /\ pc' = "dead"
    /\ snap' = <<>>
    /\ idx' = 1
    /\ fired_any' = FALSE
    /\ image_path' = NoPath
    /\ cyc' = NoCyc
    /\ UNCHANGED <<clock, ui, env, lastDue, edited, now, temp>>
    /\ UNCHANGED listVars
    /\ UNCHANGED deliveryVars

\* line 751: print(...) raised (stdout closed, or a title the console encoding
\* cannot encode); lines 763-766: except Exception: pass, then time.sleep(5).
\* The locals of the abandoned cycle are dead.
check_log_raise ==
    /\ pc = "log"
    /\ cycle' = [cycle EXCEPT !.skipped = Len(snap) - idx]
    /\ pc' = "sleep"
    /\ snap' = <<>>
    /\ idx' = 1
    /\ fired_any' = FALSE
    /\ image_path' = NoPath
    /\ cyc' = NoCyc
    /\ UNCHANGED <<clock, ui, env, lastDue, edited, now, temp>>
    /\ UNCHANGED listVars
    /\ UNCHANGED deliveryVars

\* lines 761-766: the loop is over; if fired_any: self.save_notifications(); sleep
check_end ==
    /\ pc = "loop"
    /\ idx > Len(snap)
    /\ IF fired_any
       THEN synced' = TRUE /\ cycle' = [cycle EXCEPT !.saves = Inc(@)]
       ELSE UNCHANGED <<synced, cycle>>
    /\ pc' = "sleep"
    /\ snap' = <<>>
    /\ idx' = 1
    /\ fired_any' = FALSE
    /\ cyc' = NoCyc
    /\ UNCHANGED <<clock, ui, env, lastDue, edited, now, image_path, temp>>
    /\ UNCHANGED <<notifications, store, nCreated, nOps>>
    /\ UNCHANGED deliveryVars

\* lines 761-766 with 662-668: the write of notifications.json fails; the error is
\* caught inside save_notifications, and whatever its messagebox raises in the
\* poller thread is caught by line 763; nothing was written; sleep
check_end_save_fails ==
    /\ pc = "loop"
    /\ idx > Len(snap)
    /\ fired_any
    /\ pc' = "sleep"
    /\ snap' = <<>>
    /\ idx' = 1
    /\ fired_any' = FALSE
    /\ cyc' = NoCyc
    /\ UNCHANGED <<clock, ui, env, lastDue, edited, now, cycle, image_path, temp>>
    /\ UNCHANGED listVars
    /\ UNCHANGED deliveryVars

\* the positions of the poller thread inside `while True`
PollerPositions == {"sleep", "loop", "eval", "send", "mark", "log"}

Poller ==
    \/ check_snapshot
    \/ check_now
    \/ check_eval
    \/ check_send
    \/ check_mark
    \/ check_log
    \/ check_log_raise
    \/ check_end
    \/ check_end_save_fails

(* ---------------------------- specifications -------------------------- *)
\* everything: the poller, the clock and the user's create/update/delete
Next ==
    \/ Tick
    \/ MainLoop
    \/ \E f \in Forms : create_notification(f)
    \/ \E k \in 1..MaxRecords, f \in Forms : update_notification(k, f)
    \/ \E k \in 1..MaxRecords : delete_notification(k)
    \/ run_callback
    \/ Poller

Spec == Init /\ [][Next]_vars

\* creation and polling only: no record is edited or deleted
NextPoll ==
    \/ Tick
    \/ MainLoop
    \/ \E f \in PollForms : create_notification(f)
    \/ run_callback
    \/ Poller

SpecPoll == Init /\ [][NextPoll]_vars

\* send_test_notification (lines 835-837), a UI handler
send_test_notification ==
    /\ ui = "running"
    /\ UNCHANGED pollerVars
    /\ send_notification([title |-> "Test Notification", image_path |-> NoPath], "ui")
    /\ UNCHANGED <<clock, ui, env, lastDue, edited, lastReq>>
    /\ UNCHANGED listVars

\* the dispatcher alone, in every environment
InitDeliver == InitWith(Envs)

NextDeliver ==
    \/ MainLoop
    \/ send_test_notification
    \/ run_callback

SpecDeliver == InitDeliver /\ [][NextDeliver]_vars

\* the poller with nobody at the keyboard.  The poller thread keeps being
\* scheduled (time.sleep(5) returns) and the main loop keeps running the
\* callbacks posted to it.
NextLive ==
    \/ Tick
    \/ MainLoop
    \/ run_callback
    \/ Poller

SpecLive == Init /\ [][NextLive]_vars /\ WF_vars(Poller) /\ WF_vars(run_callback)

\* What can be typed into the form: a blank title, times that strptime("%H:%M")
\* accepts (09:00, 12:30, 13:00) and one it rejects (24:00), either AM/PM choice.
InputForms ==
    {[title |-> ti, message |-> "msg", date |-> d, time |-> tm, ampm |-> ap,
      repeat |-> rp, priority |-> "Normal", image |-> ""] :
        ti \in {"Standup", ""}, d \in {NoDate, Day0},
        tm \in {<<9, 0>>, <<12, 30>>, <<13, 0>>, <<24, 0>>},
        ap \in {"AM", "PM"}, rp \in {"Once", "Daily"}}

\* the form handlers alone, with everything the form lets through
NextInput ==
    \/ MainLoop
    \/ \E f \in InputForms : create_notification(f)
    \/ \E k \in 1..MaxRecords, f \in InputForms : update_notification(k, f)
    \/ \E k \in 1..MaxRecords : delete_notification(k)

SpecInput == Init /\ [][NextInput]_vars

\* reminders that carry an image, and one that does not
ImageForms ==
    {[MkForm("Standup", NoDate, ap, "Daily") EXCEPT !.image = "png"] : ap \in {"AM", "PM"}}
        \cup {MkForm("Review", NoDate, "AM", "Daily")}

\* creation and polling of reminders with images, within one minute of the clock
NextImage ==
    \/ MainLoop
    \/ \E f \in ImageForms : create_notification(f)
    \/ run_callback
    \/ Poller

SpecImage == Init /\ [][NextImage]_vars

(* ------------------------------- properties ------------------------------- *)
\* steps of the poller, recognised by its position
FoundDue == pc = "eval" /\ pc' = "send"
Requests == pc = "send" /\ pc' = "mark"
Marks == pc = "mark" /\ pc' = "log"
\* a step that is no create/update/delete
NoListOp == nOps' = nOps

Later(t, u) == t.day > u.day \/ (t.day = u.day /\ TodIndex(t.tod) > TodIndex(u.tod))

\* C1 as stated: whatever the user does in between, a record is requested at most
\* once per calendar minute, a Once record once ever, a Daily record once per
\* calendar day, a Weekly record once per ISO week, and a Weekly record is found
\* due only on its created_weekday.
C1_AsStated ==
    /\ [][Requests =>
        LET r == store[cur]
            prev == lastDue[cur]
        IN  /\ prev # NoDue => MinuteStr(prev.t) # MinuteStr(now)
            /\ (r.repeat = "Once" /\ prev.repeat = "Once") => FALSE
            /\ (r.repeat = "Daily" /\ prev.repeat = "Daily") => DateStr(prev.t) # DateStr(now)
            /\ (r.repeat = "Weekly" /\ prev.repeat = "Weekly") => WeekStr(prev.t) # WeekStr(now)]_vars
    /\ [][(FoundDue /\ store[cur].repeat = "Weekly") =>
            Weekday(now.day) = store[cur].created_weekday]_vars

\* C1 amended: two requests for the same record with no update_notification of it
\* in between lie in different calendar minutes; none follows a request made as
\* Once; after one made as Daily the next lies on another day; after one made as
\* Weekly in another ISO week; and a Weekly record is found due only at an instant
\* whose weekday is its created_weekday.
C1_OncePerPeriodBetweenEdits ==
    /\ [][(Requests /\ ~edited[cur] /\ lastDue[cur] # NoDue) =>
            LET r == store[cur]
                prev == lastDue[cur]
            IN  /\ MinuteStr(prev.t) # MinuteStr(now)
                /\ prev.repeat = r.repeat
                /\ r.repeat # "Once"
                /\ r.repeat = "Daily" => DateStr(prev.t) # DateStr(now)
                /\ r.repeat = "Weekly" => WeekStr(prev.t) # WeekStr(now)]_vars
    /\ [][(FoundDue /\ store[cur].repeat = "Weekly") =>
            Weekday(now.day) = store[cur].created_weekday]_vars

\* a record requested once is found due again, unedited
C1_Witness ==
    /\ pc = "send"
    /\ lastDue[cur] # NoDue
    /\ ~edited[cur]

\* C2: a Once record is due only at instants of the minute `date time`, and only
\* while delivered is false and date is present; the poller finds it due only then,
\* so a minute that was missed is never caught up.
C2_OnceOnlyInItsMinute ==
    /\ [](\A i \in Ids : store[i].repeat = "Once" =>
            \A t \in Instants :
                should_fire(store[i], t, t) =>
                    /\ ~store[i].delivered
                    /\ store[i].date # NoDate
                    /\ t.day = store[i].date.d
                    /\ t.tod = store[i].time)
    /\ [][(FoundDue /\ store[cur].repeat = "Once") =>
            /\ now = ParseDateTime(store[cur].date, store[cur].time)
            /\ ~store[cur].delivered]_vars

\* a Once reminder for day 0, 09:00 (the first instant), evaluated in this cycle at
\* a later instant, found not due, never requested
C2_Witness ==
    \E i \in Ids :
        /\ store[i].repeat = "Once"
        /\ store[i].date = Day0 /\ store[i].time = <<9, 0>>
        /\ ~store[i].delivered
        /\ lastDue[i] = NoDue
        /\ pc = "loop"
        /\ cyc[i].ev = 1 /\ cyc[i].req = 0
        /\ Later(clock, ParseDateTime(Day0, <<9, 0>>))

\* C3: _mark_fired on a Once record sets delivered; from then on _should_fire is
\* false at every instant, and no step other than a user's edit changes that.
C3_OnceStaysFired ==
    /\ [](\A i \in Ids : (store[i].repeat = "Once" /\ store[i].delivered) =>
            \A t \in Instants : ~should_fire(store[i], t, t))
    /\ [][(Marks /\ store[cur].repeat = "Once") => store'[cur].delivered]_vars
    /\ [][\A i \in Ids : (store[i].repeat = "Once" /\ store[i].delivered /\ NoListOp) =>
            (store'[i].repeat = "Once" /\ store'[i].delivered)]_vars

\* a Once record marked in an earlier cycle, evaluated again and not requested
C3_Witness ==
    \E i \in Ids :
        /\ store[i].repeat = "Once" /\ store[i].delivered
        /\ pc = "loop"
        /\ cyc[i].ev = 1 /\ cyc[i].req = 0
        /\ clock = ParseDateTime(store[i].date, store[i].time)

\* C4: a Daily record, never edited.  Evaluated at one instant, it is found due
\* exactly when that instant's HH:MM is its time and last_fired_date is not that
\* day; the request carries its title and is the only one of the cycle; the mark
\* made in the same minute stores that day; no other step touches the record; two
\* requests never share a day; and once day X is stored the record is due at no
\* instant of day X and due again at its time on day X+1.
C4_DailyOncePerDay ==
    /\ [][(pc = "eval" /\ pc' # "eval" /\ store[cur].repeat = "Daily" /\ clock = now) =>
            (pc' = "send" <=> (TimeStr(now) = store[cur].time
                               /\ store[cur].last_fired_date # DateStr(now)))]_vars
    /\ [][(Requests /\ store[cur].repeat = "Daily") =>
            /\ lastReq' = [id |-> cur, title |-> store[cur].title]
            /\ cyc'[cur].req = 1
            /\ ui = "running" =>
                uiQueue' = Append(uiQueue, [title |-> store[cur].title, image_path |-> NoPath])
            /\ (lastDue[cur] # NoDue => DateStr(lastDue[cur].t) # DateStr(now))]_vars
    /\ [][(Marks /\ store[cur].repeat = "Daily" /\ clock = lastDue[cur].t) =>
            store'[cur].last_fired_date = DateStr(lastDue[cur].t)]_vars
    /\ [][\A i \in Ids : (store[i].repeat = "Daily" /\ ~(Marks /\ cur = i)) =>
            store'[i] = store[i]]_vars
    /\ [](\A i \in Ids : (store[i].repeat = "Daily" /\ store[i].last_fired_date # NoDate) =>
            \A t \in Instants :
                /\ DateStr(t) = store[i].last_fired_date => ~should_fire(store[i], t, t)
                /\ (t.day = store[i].last_fired_date.d + 1 /\ TimeStr(t) = store[i].time)
                        => should_fire(store[i], t, t))

\* a Daily record requested on day 0 is found due again on day 1
C4_Witness ==
    /\ pc = "send"
    /\ store[cur].repeat = "Daily"
    /\ lastDue[cur].t.day = 0
    /\ store[cur].last_fired_date = [d |-> 0, canon |-> TRUE]
    /\ now.day = 1
    /\ clock = now

\* C5: a Weekly record is due at no instant of a day whose weekday is not its
\* created_weekday; it is due on that weekday at its time when last_fired_week is
\* not the instant's ISO week; _mark_fired stores the current ISO week, after which
\* it is due at no instant of that week and due again on its weekday at its time
\* in the following week.
C5_WeeklyOncePerIsoWeek ==
    /\ [](\A i \in Ids : store[i].repeat = "Weekly" =>
            \A t \in Instants :
                LET r == store[i]
                    slot == Weekday(t.day) = r.created_weekday /\ TimeStr(t) = r.time
                IN  /\ Weekday(t.day) # r.created_weekday => ~should_fire(r, t, t)
                    /\ (slot /\ r.last_fired_week # WeekStr(t)) => should_fire(r, t, t)
                    /\ r.last_fired_week = WeekStr(t) => ~should_fire(r, t, t)
                    /\ (slot /\ r.last_fired_week # NoWeek
                             /\ WeekStr(t) = r.last_fired_week + 1) => should_fire(r, t, t))
    /\ [][(Marks /\ store[cur].repeat = "Weekly") =>
            store'[cur].last_fired_week = WeekStr(clock)]_vars

\* a Weekly record marked this week, evaluated again in its own minute, not requested
C5_Witness ==
    \E i \in Ids :
        /\ store[i].repeat = "Weekly"
        /\ store[i].last_fired_week = WeekStr(clock)
        /\ Weekday(clock.day) = store[i].created_weekday
        /\ TimeStr(clock) = store[i].time
        /\ pc = "loop"
        /\ cyc[i].ev = 1 /\ cyc[i].req = 0

\* C6: a cycle never ends with records of its snapshot left unevaluated, also when
\* processing one of them raised.
C6_RemainingRecordsEvaluated == cycle.skipped = 0

\* C7: _deliver_notification is never run by the poller thread.
C7_PollerNeverDelivers == "poller" \notin execBy

Pos(m) == CHOOSE k \in 1..Len(Mechs) : Mechs[k] = m
Avail(e, m) ==
    IF m = "win10toast" THEN e.toaster
    ELSE IF m = "winotify" THEN e.winotify
    ELSE IF m = "plyer" THEN e.plyer
    ELSE TRUE

\* C8: one delivery call invokes mechanisms in the order win10toast, winotify,
\* plyer, dialog, each at most once, a mechanism only when it exists and every
\* earlier existing one was invoked and failed, none after one that succeeded, and
\* no exception leaves the call.
C8_FallbackChain ==
    lastCall # NoCall =>
        LET tr == lastCall.trace
        IN  /\ Len(tr) >= 1
            /\ \A a, b \in 1..Len(tr) : a < b => Pos(tr[a]) < Pos(tr[b])
            /\ \A k \in 1..Len(tr) :
                /\ Avail(env, tr[k])
                /\ \A m \in MechSet : (Pos(m) < Pos(tr[k]) /\ Avail(env, m)) =>
                        (m \in env.fails /\ \E j \in 1..(k - 1) : tr[j] = m)
            /\ \A k \in 1..(Len(tr) - 1) : tr[k] \in env.fails
            /\ tr[Len(tr)] \in env.fails => tr[Len(tr)] = "dialog"
            /\ ~lastCall.raised

\* both toasts and the generic library failed: all four were invoked, once each
C8_Witness ==
    /\ lastCall.trace = Mechs
    /\ {"win10toast", "winotify", "plyer"} \subseteq env.fails

\* C9: in one cycle a record is evaluated, requested and marked at most once each,
\* requested only if evaluated, marked only if requested, and whenever the poller
\* is between records every request of the cycle has been followed by its mark.
C9_OncePerCycle ==
    \A i \in Ids :
        /\ cyc[i].ev <= 1 /\ cyc[i].req <= 1 /\ cyc[i].mk <= 1
        /\ cyc[i].req <= cyc[i].ev
        /\ cyc[i].mk <= cyc[i].req
        /\ pc \in {"loop", "eval", "sleep"} => cyc[i].mk = cyc[i].req

\* both records of a snapshot were requested and marked in the same cycle
C9_Witness ==
    /\ pc = "loop"
    /\ Len(snap) = 2
    /\ idx = 3
    /\ \A k \in 1..2 : cyc[snap[k]] = [ev |-> 1, req |-> 1, mk |-> 1]

\* C10: the poller saves only once the loop is over, at most once per cycle, and a
\* finished cycle has saved exactly when a record fired in it.
C10_PersistOncePerFiringCycle ==
    /\ cycle.saves <= 1
    /\ pc # "sleep" => cycle.saves = 0
    /\ pc = "sleep" => (cycle.fired <=> cycle.saves = 1)

\* C11: the poller thread is always somewhere inside its loop; a cycle that raised
\* (while a record was processed, or while saving) ends asleep like any other; and
\* the poller sleeps and starts a cycle again and again, forever.
C11_PollerNeverTerminates ==
    /\ [](pc \in PollerPositions)
    /\ [][(pc = "log" /\ pc' # pc) => pc' \in {"loop", "sleep"}]_vars
    /\ [][(pc = "loop" /\ pc' # pc) => pc' \in {"eval", "sleep"}]_vars
    /\ [][(pc = "sleep" /\ pc' # pc) => pc' = "loop"]_vars
    /\ []<>(pc = "sleep")
    /\ []<>(pc = "loop")

\* a new cycle is running after one that marked a record and was cut short by an
\* exception before it saved
C11_Witness ==
    /\ pc = "loop"
    /\ ~cycle.fired
    /\ ~synced
    /\ \E i \in Ids : store[i].repeat = "Daily" /\ store[i].last_fired_date # NoDate

\* C12: every stored record has a time that is a valid 24-hour HH:MM value
\* (hour 00-23, minute 00-59).
C12_StoredTimeValid ==
    \A i \in Ids : store[i] # NoRec => ValidTime(store[i].time)

\* C13: a step of the poller leaves the list as it is and changes no record, except
\* that _mark_fired, applied to the record whose delivery was requested just before
\* in the same cycle, changes the one field of the record's repeat mode: delivered
\* for Once, last_fired_date for Daily, last_fired_week for Weekly.
C13_PollerOnlySetsFireMemory ==
    [][pc' # pc =>
        /\ notifications' = notifications
        /\ nCreated' = nCreated
        /\ \A i \in Ids : (~Marks \/ i # cur) => store'[i] = store[i]
        /\ Marks =>
            LET o == store[cur]
                n == store'[cur]
            IN  /\ cyc[cur].ev = 1 /\ cyc[cur].req = 1 /\ cyc[cur].mk = 0
                /\ lastReq.id = cur
                /\ o.repeat = "Once" => n = [o EXCEPT !.delivered = TRUE]
                /\ o.repeat = "Daily" =>
                        n = [o EXCEPT !.last_fired_date = n.last_fired_date]
                /\ o.repeat = "Weekly" =>
                        n = [o EXCEPT !.last_fired_week = n.last_fired_week]
                /\ n.last_fired_date # o.last_fired_date => o.repeat = "Daily"
                /\ n.last_fired_week # o.last_fired_week => o.repeat = "Weekly"]_vars

\* a Daily and a Weekly record have both been marked by the poller
C13_Witness ==
    /\ pc = "log"
    /\ \E i \in Ids : store[i].repeat = "Daily" /\ store[i].last_fired_date # NoDate
    /\ \E i \in Ids : store[i].repeat = "Weekly" /\ store[i].last_fired_week # NoWeek

\* steps of the UI handlers, recognised by their bookkeeping
CreateStep == nCreated' = nCreated + 1
UpdateStep == nOps' = nOps + 1 /\ nCreated' = nCreated /\ notifications' = notifications

\* C14: the record update_notification leaves behind has empty last_fired_date and
\* last_fired_week; delivered is false when the resulting repeat is Once and keeps
\* its value when it is Daily or Weekly; the record create_notification appends has
\* delivered false and both memories empty.
C14_UpdateResetsMemory ==
    /\ [][UpdateStep =>
            \A i \in Ids : store'[i] # store[i] =>
                LET o == store[i]
                    n == store'[i]
                IN  /\ n.last_fired_date = NoDate
                    /\ n.last_fired_week = NoWeek
                    /\ n.repeat = "Once" => ~n.delivered
                    /\ n.repeat \in {"Daily", "Weekly"} => n.delivered = o.delivered]_vars
    /\ [][CreateStep =>
            LET n == store'[nCreated']
            IN  /\ notifications' = Append(notifications, nCreated')
                /\ ~n.delivered
                /\ n.last_fired_date = NoDate
                /\ n.last_fired_week = NoWeek]_vars

\* a Once record that was delivered and then edited to Daily: delivered is kept
C14_Witness ==
    \E i \in Ids :
        /\ edited[i]
        /\ lastDue[i].repeat = "Once"
        /\ store[i].repeat = "Daily"
        /\ store[i].delivered
        /\ store[i].last_fired_date = NoDate

\* C15 as stated: the weekday anchor a repeating record has after an edit is not
\* taken from the date in the form: it is the anchor the record had, or the
\* weekday of the day of the edit.
C15_AnchorNotFromDate ==
    [][UpdateStep =>
        \A i \in Ids :
            (store'[i] # store[i] /\ store'[i].repeat \in {"Daily", "Weekly"}) =>
                store'[i].created_weekday \in
                    {store[i].created_weekday, Weekday(clock.day)}]_vars

\* C15 amended: an edit that leaves a repeating record sets created_weekday anew,
\* as creation does: to the weekday of the date in the form when a date was
\* entered, to the weekday of the day of the edit when the date is blank.
C15_AnchorSetOnEdit ==
    [][UpdateStep =>
        \A i \in Ids :
            (store'[i] # store[i] /\ store'[i].repeat \in {"Daily", "Weekly"}) =>
                store'[i].created_weekday =
                    IF store'[i].date # NoDate
                    THEN Weekday(ParseDateTime(store'[i].date, store'[i].time).day)
                    ELSE Weekday(clock.day)]_vars

\* a record edited on day 0 to Weekly with the date of day 1: anchored on day 1's
\* weekday, which is neither its former anchor nor today's weekday
C15_Witness ==
    \E i \in Ids :
        /\ edited[i]
        /\ clock.day = 0
        /\ store[i].repeat = "Weekly"
        /\ store[i].date = Day1
        /\ store[i].created_weekday = Weekday(1)
        /\ Weekday(1) # Weekday(0)

\* C16: when the due check of a Daily record was made at the record's time on day
\* X, the mark that follows stores X as last_fired_date; when the due check of a
\* Weekly record was made at its time in ISO week W, the mark stores W; also when
\* the clock has moved on to its next instant (the next day, the next week)
\* between the due check and the mark.
C16_MarkStoresDueDay ==
    [][(Marks /\ lastDue[cur].repeat = store[cur].repeat
              /\ TimeStr(lastDue[cur].t) = store[cur].time
              /\ clock \in {lastDue[cur].t, NextInstant(lastDue[cur].t)}) =>
        /\ store[cur].repeat = "Daily" =>
                store'[cur].last_fired_date = DateStr(lastDue[cur].t)
        /\ store[cur].repeat = "Weekly" =>
                store'[cur].last_fired_week = WeekStr(lastDue[cur].t)]_vars

\* C17: the record _mark_fired is applied to has not been updated since its
\* delivery was requested: a mark never lands on a record that was edited after
\* the due check the mark is based on.
C17_NoMarkAfterEdit ==
    [][Marks => ~edited[cur]]_vars

\* C18: no delivery has run with an image path whose file was gone, and the file of
\* every delivery still waiting in the UI context's queue exists (the poller has
\* not removed it yet).
C18_ImageFileOutlivesDelivery ==
    /\ ~missing
    /\ \A k \in 1..Len(uiQueue) : ~FileGone(uiQueue[k].image_path, temp)

====
